---- MODULE Spec2Model ----
(***************************************************************************)
(* Model of boilerplates/rust-web-app: the token codec (utils/auth.rs),    *)
(* the authentication extractor (middleware/auth.rs), the error taxonomy   *)
(* (utils/error.rs) and the register / login / profile handlers            *)
(* (routes/users.rs) over the users table.                                 *)
(***************************************************************************)
EXTENDS Integers, Sequences, FiniteSets, TLC

VARIABLES
    now,          \* chrono::Utc::now().timestamp(), seconds
    env_secret,   \* process environment APP__APPLICATION__JWT_SECRET, or Unset
    config,       \* Settings.application: jwt_secret, jwt_expiration
    unique_email, \* whether the users table (migrations, not in the sources) declares email UNIQUE
    users,        \* rows of the users table
    pc,           \* per register request: "idle", "insert" (suspended before the INSERT), "done"
    local,        \* per register request: the payload and the computed password hash
    reply,        \* per register request: the HTTP response, or None
    response,     \* the HTTP response of the last login / profile request, or None
    token,        \* the bearer token the client holds, or None
    result,       \* outcome of the last verify_jwt / from_request_parts call, or None
    err,          \* an AppError handed to into_response
    rendered      \* the response into_response produced for err, or None

vars == <<now, env_secret, config, unique_email, users, pc, local, reply,
          response, token, result, err, rendered>>

None == [none |-> TRUE]
Unset == "<unset>"

-----------------------------------------------------------------------------
(* Bounds of the model *)

\* the clock starts late enough that no timestamp of the model is negative
StartTime == 61
\* seconds the clock runs after StartTime in the codec / extractor specification
Horizon == 63
\* seconds after StartTime during which tokens are still issued
IssueWindow == 1
\* seconds the clock runs after StartTime in the service specification
ServiceTicks == 1
\* the concurrent register requests
Tasks == {"r1", "r2"}
Secrets == {"secret", "k1"}
Lifetimes == {-1, 0, 3600}
Emails == {"ann@example.com", "not-an-email"}
Passwords == {"pw1", "pw2"}
Salts == {"s1"}

-----------------------------------------------------------------------------
(* utils/error.rs *)

SqlxErrors == {"RowNotFound", "UniqueViolation", "PoolTimedOut"}

\* sqlx::Error's Display, as used by into_response for DatabaseError(e)
SqlxToString(e) ==
    CASE e = "RowNotFound" ->
           "no rows returned by a query that expected to return at least one row"
      [] e = "UniqueViolation" ->
           "error returned from database: duplicate key value violates unique constraint"
      [] OTHER -> "pool timed out while waiting for an open connection"

Variants == {"DatabaseError", "NotFound", "BadRequest", "Unauthorized",
             "InternalError", "ValidationError"}

DatabaseError(e) == [variant |-> "DatabaseError", source |-> e]
NotFound(msg) == [variant |-> "NotFound", msg |-> msg]
BadRequest(msg) == [variant |-> "BadRequest", msg |-> msg]
Unauthorized(msg) == [variant |-> "Unauthorized", msg |-> msg]
InternalError(msg) == [variant |-> "InternalError", msg |-> msg]
ValidationError(msg) == [variant |-> "ValidationError", msg |-> msg]

\* impl From<sqlx::Error> for AppError
FromSqlx(e) == DatabaseError(e)

ErrorResponseWithSuccess(error, message) ==
    [success |-> FALSE, error |-> error, message |-> message]

\* struct ErrorResponse { error, message }, serialized as the JSON body
ErrorResponse(error, message) == [error |-> error, message |-> message]

into_response_422_as_400(e) ==
    LET t == CASE e.variant = "DatabaseError" ->
                    <<500, "DATABASE_ERROR", SqlxToString(e.source)>>
               [] e.variant = "NotFound" -> <<404, "NOT_FOUND", e.msg>>
               [] e.variant = "BadRequest" -> <<400, "BAD_REQUEST", e.msg>>
               [] e.variant = "Unauthorized" -> <<401, "UNAUTHORIZED", e.msg>>
               [] e.variant = "InternalError" -> <<500, "INTERNAL_ERROR", e.msg>>
               [] e.variant = "ValidationError" -> <<400, "VALIDATION_ERROR", e.msg>>
    IN  [status |-> t[1], body |-> ErrorResponse(t[2], t[3])]

\* impl IntoResponse for AppError
into_response(e) ==
    LET t == CASE e.variant = "DatabaseError" ->
                    <<500, "DATABASE_ERROR", SqlxToString(e.source)>>
               [] e.variant = "NotFound" -> <<404, "NOT_FOUND", e.msg>>
               [] e.variant = "BadRequest" -> <<400, "BAD_REQUEST", e.msg>>
               [] e.variant = "Unauthorized" -> <<401, "UNAUTHORIZED", e.msg>>
               [] e.variant = "InternalError" -> <<500, "INTERNAL_ERROR", e.msg>>
               [] e.variant = "ValidationError" -> <<422, "VALIDATION_ERROR", e.msg>>
    IN  [status |-> t[1], body |-> ErrorResponse(t[2], t[3])]

-----------------------------------------------------------------------------
(* utils/auth.rs: the token codec *)

\* jsonwebtoken::Validation::default(): seconds of leeway granted on exp
Leeway == 60

Ok(v) == [ok |-> TRUE, val |-> v]
Err(e) == [ok |-> FALSE, err |-> e]

\* A subject string is modelled by its textual form and the value it spells:
\* Uuid's Display writes the hyphenated form; "text" is a string that is no UUID.
UuidFormats == {"hyphenated", "simple"}
UuidToString(id) == [fmt |-> "hyphenated", val |-> id]
Subjects == {UuidToString(1), [fmt |-> "simple", val |-> 1], [fmt |-> "text", val |-> 1]}

\* Uuid::parse_str
ParseUuid(s) == IF s.fmt \in UuidFormats THEN Ok(s.val) ELSE Err("invalid uuid")

\* HS256 over the serialized claims: the tag binds the key and the signed content
Sign(secret, claims) == [key |-> secret, signed |-> claims]

\* a string that does not split into header.payload.signature
Unparseable == [parseable |-> FALSE, claims |-> None, sig |-> None]

\* create_jwt(user_id, secret, expiration), t the clock value it reads.
\* now + expiration is an i64 sum; the values of the model stay far from its range.
create_jwt(user_id, secret, expiration, t) ==
    LET claims == [sub |-> user_id, exp |-> t + expiration, iat |-> t]
    IN  Ok([parseable |-> TRUE, claims |-> claims, sig |-> Sign(secret, claims)])

verify_jwt_no_signature_check(tok, secret, t) ==
    IF ~tok.parseable
    THEN Err(Unauthorized("Invalid token: " \o "InvalidToken"))
    ELSE IF tok.claims.exp < t - Leeway
    THEN Err(Unauthorized("Invalid token: " \o "ExpiredSignature"))
    ELSE Ok(tok.claims)

\* verify_jwt(token, secret), t the clock value jsonwebtoken's validation reads.
\* decode() splits the token, verifies the signature, then validates exp
\* against now - leeway; map_err puts the library error's Display in the message.
verify_jwt(tok, secret, t) ==
    IF ~tok.parseable
    THEN Err(Unauthorized("Invalid token: " \o "InvalidToken"))
    ELSE IF tok.sig # Sign(secret, tok.claims)
    THEN Err(Unauthorized("Invalid token: " \o "InvalidSignature"))
    ELSE IF tok.claims.exp < t - Leeway
    THEN Err(Unauthorized("Invalid token: " \o "ExpiredSignature"))
    ELSE Ok(tok.claims)

\* bcrypt::hash: a fresh salt per call
hash_password(password, salt) ==
    Ok([scheme |-> "bcrypt", salt |-> salt, secret |-> password])

\* bcrypt::verify: an error on a digest that is no bcrypt digest
verify_password(password, hash) ==
    IF hash.scheme # "bcrypt"
    THEN Err(InternalError("Failed to verify password: " \o "invalid hash"))
    ELSE Ok(hash.secret = password)

-----------------------------------------------------------------------------
(* middleware/auth.rs: the authentication extractor *)

\* An Authorization header value: whether to_str() accepts it, its first
\* characters up to and including the first space, and the rest.
Header(prefix, rest) == [ascii |-> TRUE, prefix |-> prefix, rest |-> rest]
OpaqueHeader == [ascii |-> FALSE, prefix |-> "", rest |-> Unparseable]
Prefixes == {"Bearer ", "Token "}

\* std::env::var("APP__APPLICATION__JWT_SECRET").unwrap_or_else(|_| "secret")
ExtractorSecret(env) == IF env = Unset THEN "secret" ELSE env

from_request_parts_any_scheme(header, env, t) ==
    IF header = None \/ ~header.ascii
    THEN Err(Unauthorized("Missing authorization header"))
    ELSE LET claims == verify_jwt(header.rest, ExtractorSecret(env), t)
         IN  IF ~claims.ok
             THEN claims
             ELSE LET id == ParseUuid(claims.val.sub)
                  IN  IF ~id.ok
                      THEN Err(Unauthorized("Invalid user ID in token"))
                      ELSE Ok([user_id |-> id.val])

\* AuthUser::from_request_parts; header = None when the request has no
\* Authorization header
from_request_parts(header, env, t) ==
    IF header = None \/ ~header.ascii
    THEN Err(Unauthorized("Missing authorization header"))
    ELSE IF header.prefix # "Bearer "
    THEN Err(Unauthorized("Invalid authorization format"))
    ELSE LET claims == verify_jwt(header.rest, ExtractorSecret(env), t)
         IN  IF ~claims.ok
             THEN claims
             ELSE LET id == ParseUuid(claims.val.sub)
                  IN  IF ~id.ok
                      THEN Err(Unauthorized("Invalid user ID in token"))
                      ELSE Ok([user_id |-> id.val])

-----------------------------------------------------------------------------
(* routes/users.rs: the handlers, over the users table *)

\* payload.validate(): the derive lives in models.rs; structural check of the email
Validate(payload) == payload.email # "not-an-email"

\* ApiResponse::success(data) returned as Json: status 200
Success(data) == [status |-> 200, body |-> [success |-> TRUE, data |-> data]]

\* impl From<User> for UserResponse: the row without its password hash
UserResponse(user) == [id |-> user.id, email |-> user.email, name |-> user.name]

\* SELECT * FROM users WHERE email = $1
ByEmail(email) == {u \in users : u.email = email}

\* SELECT * FROM users WHERE id = $1
ById(id) == {u \in users : u.id = id}

Payloads == [email : Emails, password : Passwords, name : {"Ann"}]

\* register, up to its suspension on the INSERT: validate, SELECT by email, hash
RegisterCheck(t) ==
    /\ pc[t] = "idle"
    /\ \E payload \in Payloads, salt \in Salts :
         /\ local' = [local EXCEPT ![t] =
                        [payload |-> payload,
                         password_hash |-> hash_password(payload.password, salt).val]]
         /\ IF ~Validate(payload)
            THEN /\ reply' = [reply EXCEPT ![t] =
                                into_response(ValidationError("email: invalid"))]
                 /\ pc' = [pc EXCEPT ![t] = "done"]
            ELSE IF ByEmail(payload.email) # {}
            THEN /\ reply' = [reply EXCEPT ![t] =
                                into_response(BadRequest("User already exists"))]
                 /\ pc' = [pc EXCEPT ![t] = "done"]
            ELSE /\ pc' = [pc EXCEPT ![t] = "insert"]
                 /\ UNCHANGED reply
    /\ UNCHANGED <<now, env_secret, config, unique_email, users, response, token,
                   result, err, rendered>>

\* register, from the INSERT on: insert the row, issue the token, answer
RegisterInsert(t) ==
    /\ pc[t] = "insert"
    /\ pc' = [pc EXCEPT ![t] = "done"]
    /\ IF unique_email /\ ByEmail(local[t].payload.email) # {}
       THEN /\ reply' = [reply EXCEPT ![t] = into_response(FromSqlx("UniqueViolation"))]
            /\ UNCHANGED <<users, token>>
       ELSE LET user == [id |-> Cardinality(users) + 1,
                         email |-> local[t].payload.email,
                         password_hash |-> local[t].password_hash,
                         name |-> local[t].payload.name]
                jwt == create_jwt(UuidToString(user.id), config.jwt_secret,
                                  config.jwt_expiration, now)
            IN  /\ users' = users \cup {user}
                /\ token' = jwt.val
                /\ reply' = [reply EXCEPT ![t] =
                               Success([token |-> jwt.val, user |-> UserResponse(user)])]
    /\ UNCHANGED <<now, env_secret, config, unique_email, local, response, result,
                   err, rendered>>

login_distinct_messages(payload, found, t) ==
    IF ~Validate(payload)
    THEN Err(ValidationError("email: invalid"))
    ELSE IF found = None
    THEN Err(Unauthorized("User not found"))
    ELSE LET valid == verify_password(payload.password, found.password_hash)
         IN  IF ~valid.ok
             THEN valid
             ELSE IF ~valid.val
             THEN Err(Unauthorized("Invalid credentials"))
             ELSE LET jwt == create_jwt(UuidToString(found.id), config.jwt_secret,
                                        config.jwt_expiration, t)
                  IN  Ok([token |-> jwt.val, user |-> UserResponse(found)])

\* login; found is the row fetch_optional returned for the email, or None
login(payload, found, t) ==
    IF ~Validate(payload)
    THEN Err(ValidationError("email: invalid"))
    ELSE IF found = None
    THEN Err(Unauthorized("Invalid credentials"))
    ELSE LET valid == verify_password(payload.password, found.password_hash)
         IN  IF ~valid.ok
             THEN valid
             ELSE IF ~valid.val
             THEN Err(Unauthorized("Invalid credentials"))
             ELSE LET jwt == create_jwt(UuidToString(found.id), config.jwt_secret,
                                        config.jwt_expiration, t)
                  IN  Ok([token |-> jwt.val, user |-> UserResponse(found)])

\* the rows fetch_optional may return for the email
Fetched(email) == IF ByEmail(email) = {} THEN {None} ELSE ByEmail(email)

\* what a login request finds in the table: recorded next to the response
LoginCase(payload, found) ==
    IF found = None THEN "no_record"
    ELSE IF found.password_hash.secret # payload.password THEN "wrong_password"
    ELSE "match"

\* one login request
Login ==
    /\ \E payload \in Payloads : \E found \in Fetched(payload.email) :
         LET r == login(payload, found, now)
         IN  /\ response' = [op |-> "login",
                             request |-> [email |-> payload.email],
                             found |-> LoginCase(payload, found),
                             http |-> IF r.ok THEN Success(r.val)
                                      ELSE into_response(r.err)]
             /\ token' = IF r.ok THEN r.val.token ELSE token
    /\ UNCHANGED <<now, env_secret, config, unique_email, users, pc, local, reply,
                   result, err, rendered>>

\* the Authorization headers a client holding tok may send
Headers(tok) ==
    {None, OpaqueHeader, Header("Token ", Unparseable)}
      \cup (IF tok = None THEN {} ELSE {Header(p, tok) : p \in Prefixes})

\* get_profile: the extractor runs first, then fetch_one by id
get_profile(header) ==
    LET auth_user == from_request_parts(header, env_secret, now)
    IN  IF ~auth_user.ok
        THEN into_response(auth_user.err)
        ELSE IF ById(auth_user.val.user_id) = {}
        THEN into_response(FromSqlx("RowNotFound"))
        ELSE Success(UserResponse(CHOOSE u \in ById(auth_user.val.user_id) : TRUE))

\* one profile request
GetProfile ==
    /\ \E header \in Headers(token) :
         response' = [op |-> "profile", request |-> header, found |-> "n/a",
                      http |-> get_profile(header)]
    /\ UNCHANGED <<now, env_secret, config, unique_email, users, pc, local, reply,
                   token, result, err, rendered>>

\* a second passes; the response of the last request has been delivered
Tick ==
    /\ now < StartTime + ServiceTicks
    /\ now' = now + 1
    /\ response' = None
    /\ UNCHANGED <<env_secret, config, unique_email, users, pc, local, reply,
                   token, result, err, rendered>>

\* Settings::new(): the environment overrides the files; jwt_secret has no default
Configs ==
    {c \in [env : {Unset} \cup Secrets, jwt_secret : Secrets, jwt_expiration : Lifetimes] :
        c.env # Unset => c.jwt_secret = c.env}

NoError == Unauthorized("")

Init ==
    /\ now = StartTime
    /\ \E c \in Configs :
         /\ env_secret = c.env
         /\ config = [jwt_secret |-> c.jwt_secret, jwt_expiration |-> c.jwt_expiration]
    /\ unique_email \in BOOLEAN
    /\ users = {}
    /\ pc = [t \in Tasks |-> "idle"]
    /\ local = [t \in Tasks |-> None]
    /\ reply = [t \in Tasks |-> None]
    /\ response = None
    /\ token = None
    /\ result = None
    /\ err = NoError
    /\ rendered = None

Next ==
    \/ \E t \in Tasks : RegisterCheck(t)
    \/ \E t \in Tasks : RegisterInsert(t)
    \/ Login
    \/ GetProfile
    \/ Tick

Spec == Init /\ [][Next]_vars

-----------------------------------------------------------------------------
(* The token codec and the extractor on their own: tokens of any subject,   *)
(* secret and lifetime, presented at any later second.                      *)

\* a caller of create_jwt
Issue ==
    /\ now <= StartTime + IssueWindow
    /\ \E user_id \in Subjects, secret \in Secrets, expiration \in Lifetimes :
         token' = create_jwt(user_id, secret, expiration, now).val
    /\ result' = None
    /\ UNCHANGED <<now, env_secret, config, unique_email, users, pc, local, reply,
                   response, err, rendered>>

\* the holder rewrites the subject of the payload and keeps the signature
Tamper ==
    /\ token # None
    /\ token.parseable
    /\ token.sig.signed = token.claims
    /\ \E s \in Subjects \ {token.claims.sub} :
         token' = [token EXCEPT !.claims.sub = s]
    /\ result' = None
    /\ UNCHANGED <<now, env_secret, config, unique_email, users, pc, local, reply,
                   response, err, rendered>>

\* the holder presents a string that is no token
Garble ==
    /\ token # Unparseable
    /\ token' = Unparseable
    /\ result' = None
    /\ UNCHANGED <<now, env_secret, config, unique_email, users, pc, local, reply,
                   response, err, rendered>>

\* a call of verify_jwt on the held token
Verify ==
    /\ token # None
    /\ \E secret \in Secrets :
         result' = [op |-> "verify", header |-> None, secret |-> secret,
                    out |-> verify_jwt(token, secret, now)]
    /\ UNCHANGED <<now, env_secret, config, unique_email, users, pc, local, reply,
                   response, token, err, rendered>>

\* a call of the extractor on a request of the holder
Extract ==
    /\ \E header \in Headers(token) :
         result' = [op |-> "extract", header |-> header,
                    secret |-> ExtractorSecret(env_secret),
                    out |-> from_request_parts(header, env_secret, now)]
    /\ UNCHANGED <<now, env_secret, config, unique_email, users, pc, local, reply,
                   response, token, err, rendered>>

\* a second passes
Advance ==
    /\ now < StartTime + Horizon
    /\ now' = now + 1
    /\ result' = None
    /\ UNCHANGED <<env_secret, config, unique_email, users, pc, local, reply,
                   response, token, err, rendered>>

InitAuth ==
    /\ now = StartTime
    /\ env_secret \in {Unset} \cup Secrets
    /\ config = [jwt_secret |-> ExtractorSecret(env_secret), jwt_expiration |-> 3600]
    /\ unique_email = TRUE
    /\ users = {}
    /\ pc = [t \in Tasks |-> "idle"]
    /\ local = [t \in Tasks |-> None]
    /\ reply = [t \in Tasks |-> None]
    /\ response = None
    /\ token = None
    /\ result = None
    /\ err = NoError
    /\ rendered = None

NextAuth == Issue \/ Tamper \/ Garble \/ Verify \/ Extract \/ Advance

SpecAuth == InitAuth /\ [][NextAuth]_vars

-----------------------------------------------------------------------------
(* The error taxonomy on its own: every AppError value, rendered.           *)

Messages ==
    {"", "Missing authorization header", "Invalid authorization format",
     "Invalid user ID in token", "Invalid credentials", "User already exists",
     "Invalid token: InvalidToken", "Invalid token: InvalidSignature",
     "Invalid token: ExpiredSignature", "Failed to create JWT: key",
     "Failed to hash password: cost", "Failed to verify password: invalid hash",
     "email: invalid"}

AppErrors ==
    {DatabaseError(e) : e \in SqlxErrors}
      \cup {NotFound(m) : m \in Messages}
      \cup {BadRequest(m) : m \in Messages}
      \cup {Unauthorized(m) : m \in Messages}
      \cup {InternalError(m) : m \in Messages}
      \cup {ValidationError(m) : m \in Messages}

\* a handler or extractor returns Err(e)
Raise ==
    /\ \E e \in AppErrors \ {err} : err' = e
    /\ rendered' = None
    /\ UNCHANGED <<now, env_secret, config, unique_email, users, pc, local, reply,
                   response, token, result>>

\* axum renders the rejection
Render ==
    /\ rendered = None
    /\ rendered' = into_response(err)
    /\ UNCHANGED <<now, env_secret, config, unique_email, users, pc, local, reply,
                   response, token, result, err>>

InitError ==
    /\ now = StartTime
    /\ env_secret = Unset
    /\ config = [jwt_secret |-> "secret", jwt_expiration |-> 3600]
    /\ unique_email = TRUE
    /\ users = {}
    /\ pc = [t \in Tasks |-> "idle"]
    /\ local = [t \in Tasks |-> None]
    /\ reply = [t \in Tasks |-> None]
    /\ response = None
    /\ token = None
    /\ result = None
    /\ err \in AppErrors
    /\ rendered = None

NextError == Raise \/ Render

SpecError == InitError /\ [][NextError]_vars

-----------------------------------------------------------------------------
(* Properties *)

\* the token a verify_jwt call was made on is one create_jwt built, untouched since
Genuine(tok) ==
    /\ tok # None
    /\ tok.parseable
    /\ tok.sig.signed = tok.claims

VerifyDone == result # None /\ result.op = "verify"
ExtractDone == result # None /\ result.op = "extract"
Rendered == rendered # None
LoginDone == response # None /\ response.op = "login"
ProfileDone == response # None /\ response.op = "profile"

\* C1: a genuine token verified with the secret that signed it is accepted
\* exactly while now < exp, and is refused with Unauthorized from now = exp on.
C1_StrictExpiry ==
    (VerifyDone /\ Genuine(token) /\ result.secret = token.sig.key) =>
        /\ result.out.ok <=> now < token.claims.exp
        /\ now >= token.claims.exp =>
             (~result.out.ok /\ result.out.err.variant = "Unauthorized")

\* C2: whenever verify_jwt fails, the message of the rendered response equals
\* the message any other failing token (unparseable, or the held one under any
\* secret) is answered with at that moment.
C2_SameFailureMessage ==
    (VerifyDone /\ ~result.out.ok) =>
        \A tok \in {Unparseable, token}, secret \in Secrets :
            LET other == verify_jwt(tok, secret, now)
            IN  ~other.ok =>
                  into_response(other.err).body.message
                    = into_response(result.out.err).body.message

\* C3: a profile request that presents, as Bearer, a token register or login
\* issued, before that token's expiry, is answered with status 200.
C3_IssuedTokenAccepted ==
    (/\ ProfileDone
     /\ response.request # None
     /\ response.request.ascii
     /\ response.request.prefix = "Bearer "
     /\ response.request.rest.parseable
     /\ now < response.request.rest.claims.exp)
        => response.http.status = 200

ExtractorContract(identity_message) ==
    ExtractDone =>
        LET h == result.header
            out == result.out
            bearer == h # None /\ h.ascii /\ h.prefix = "Bearer "
            claims == verify_jwt(h.rest, result.secret, now)
        IN  /\ ~out.ok =>
                 /\ out.err.variant = "Unauthorized"
                 /\ into_response(out.err).status = 401
                 /\ into_response(out.err).body.error = "UNAUTHORIZED"
            /\ ~bearer => ~out.ok
            /\ (bearer /\ ~claims.ok) => ~out.ok
            /\ (bearer /\ claims.ok) =>
                 IF claims.val.sub.fmt \in UuidFormats
                 THEN out = Ok([user_id |-> claims.val.sub.val])
                 ELSE out = Err(Unauthorized(identity_message))

\* C5 as stated: the identity failure reads "invalid identity in token".
C5_ThreeOutcomes == ExtractorContract("invalid identity in token")

\* C5 as amended: the same three outcomes, the identity failure reading
\* "Invalid user ID in token".
C5_ThreeOutcomesAmended == ExtractorContract("Invalid user ID in token")

C5_Witness ==
    /\ ExtractDone
    /\ result.header # None
    /\ result.header.prefix = "Bearer "
    /\ verify_jwt(result.header.rest, result.secret, now).ok
    /\ ~result.out.ok

C7_WrongSecretRejected ==
    (VerifyDone /\ Genuine(token) /\ result.secret # token.sig.key) =>
        /\ ~result.out.ok
        /\ result.out.err.variant = "Unauthorized"

C7_Witness ==
    /\ VerifyDone
    /\ Genuine(token)
    /\ result.secret # token.sig.key
    /\ now < token.claims.exp
    /\ ~result.out.ok

\* C8: each variant renders to its one (status, code) pair, whatever message
\* it carries.
C8_MappingTable ==
    Rendered =>
        <<rendered.status, rendered.body.error>> =
            CASE err.variant = "DatabaseError" -> <<500, "DATABASE_ERROR">>
              [] err.variant = "NotFound" -> <<404, "NOT_FOUND">>
              [] err.variant = "BadRequest" -> <<400, "BAD_REQUEST">>
              [] err.variant = "Unauthorized" -> <<401, "UNAUTHORIZED">>
              [] err.variant = "InternalError" -> <<500, "INTERNAL_ERROR">>
              [] err.variant = "ValidationError" -> <<422, "VALIDATION_ERROR">>

C8_Witness ==
    /\ Rendered
    /\ err.variant = "ValidationError"
    /\ err.msg # ""
    /\ rendered.status = 422

\* C9: every token register or login issued has exp > iat.
C9_ExpiresAfterIssued ==
    token # None => token.claims.exp > token.claims.iat

\* the register requests that carried the email, passed validation and were answered
Answered(email) ==
    {t \in Tasks : /\ pc[t] = "done"
                   /\ local[t].payload.email = email
                   /\ Validate(local[t].payload)}

\* C10: of the register requests carrying one email, at most one inserts a
\* record and gets a token, every other one is answered 400 / BAD_REQUEST,
\* and the table never holds two rows with that email.
C10_OneRegistrationPerEmail ==
    \A email \in Emails :
        /\ Cardinality(ByEmail(email)) <= 1
        /\ Cardinality({t \in Answered(email) : reply[t].status = 200}) <= 1
        /\ \A t \in Answered(email) :
             \/ reply[t].status = 200
             \/ /\ reply[t].status = 400
                /\ reply[t].body.error = "BAD_REQUEST"

====
